---------------------------- MODULE Spec2Model ----------------------------
(***************************************************************************)
(* Model of src/agent_clean.py: a room (HabitacionModel) of cells          *)
(* (CeldaAgent) that may be dirty, and cleaner robots (LimpiadorAgent)     *)
(* stepped by a mesa SimultaneousActivation schedule.                      *)
(*                                                                         *)
(* The mesa library is not part of the repository.  Its behaviour is       *)
(* modelled at the call sites:                                             *)
(*   MultiGrid(M, N, torus=False)  a list of M columns of N cells, built   *)
(*                                 without any check of M and N;           *)
(*   place_agent(a, (x, y))        indexes _grid[x][y], so it raises       *)
(*                                 IndexError outside the grid;            *)
(*   get_neighborhood(...)         Moore neighbours clipped to the grid;   *)
(*   SimultaneousActivation.step() calls step() of every agent in the      *)
(*                                 order they were added, then advance()   *)
(*                                 of every agent (a no-op here: the       *)
(*                                 agents do not define it), then          *)
(*                                 steps += 1;                             *)
(*   random.sample(range(n), k)    raises ValueError if k < 0 or k > n.    *)
(***************************************************************************)
EXTENDS Integers, FiniteSets, Sequences, TLC

VARIABLES
    M, N, num_agentes, celdas_sucias,  \* the constructor's arguments
    pc,               \* "new" | "failed" | "idle" | "round"
    raised,           \* the exception the last call raised, or "none"
    running,          \* HabitacionModel.running
    dirty_positions,  \* HabitacionModel.dirty_positions
    sucia,            \* CeldaAgent.sucia of the cell at each coordinate
    pos,              \* LimpiadorAgent.pos of each cleaner
    movimientos,      \* LimpiadorAgent.movimientos of each cleaner
    steps,            \* schedule.steps
    turn,             \* the next cleaner schedule.step() will activate
    collected,        \* the datacollector: number of rows and the last row
    preSucia, prePos  \* history: the grid as it was when the round began

vars == <<M, N, num_agentes, celdas_sucias, pc, raised, running,
          dirty_positions, sucia, pos, movimientos, steps, turn, collected,
          preSucia, prePos>>

params == <<M, N, num_agentes, celdas_sucias>>

(* Bounds of the model. *)
\* The cells of the largest grid.
MaxCells == 9
MaxAgents == 4
MaxDirty == 5
MaxCalls == 3
\* The cleaners times the cells of the grid they are put on.
MaxLoad == 16
\* A single cleaner on a grid of at most MaxDeepCells cells is followed for
\* MaxDeepCalls calls of step(): long enough to clean a 2 x 2 grid.
MaxDeepCells == 4
MaxDeepCalls == 9

Max(a, b) == IF a >= b THEN a ELSE b

(* The arguments tried: dimensions and dirt counts from -1 on, so that the *)
(* constructor is also run on arguments it should refuse.                  *)
Arguments ==
    { a \in ((0 - 1)..MaxCells) \X ((0 - 1)..MaxCells) \X (0..MaxAgents)
              \X ((0 - 1)..MaxDirty) :
        /\ a[1] * a[2] <= MaxCells
        /\ a[3] * Max(a[1] * a[2], 0) <= MaxLoad }

(* ------------------------------ the grid ------------------------------ *)

\* The coordinates of MultiGrid(M, N): x in range(M), y in range(N).
Celdas == (0..(M - 1)) \X (0..(N - 1))

\* The cleaners, in the order they were added to the schedule.
Agentes == 0..(num_agentes - 1)

\* The calls of step() that are followed.
CallLimit ==
    IF num_agentes = 1 /\ Cardinality(Celdas) <= MaxDeepCells
    THEN MaxDeepCalls
    ELSE MaxCalls

\* The coordinate every cleaner is placed at.
PosInicial == <<1, 1>>

\* A variant of get_neighborhood for C14: torus=True, the grid wraps around.
get_neighborhood_torus(p) ==
    { q \in Celdas : /\ q # p
                     /\ (q[1] - p[1] + M) % M \in {0, 1, M - 1}
                     /\ (q[2] - p[2] + N) % N \in {0, 1, N - 1} }

\* grid.get_neighborhood(p, moore=True, include_center=False), torus=False.
get_neighborhood(p) ==
    { q \in Celdas : /\ q # p
                     /\ q[1] - p[1] \in {0 - 1, 0, 1}
                     /\ q[2] - p[2] \in {0 - 1, 0, 1} }

\* Whether some LimpiadorAgent is among the contents of coordinate q.
HayLimpiador(q) == \E b \in Agentes : pos[b] = q

\* A variant of valid_moves for C18: the not of the filter is lost.
valid_moves_invertido(p) == { q \in get_neighborhood(p) : HayLimpiador(q) }

\* A variant of valid_moves for C15: the neighbours are not filtered.
valid_moves_sin_filtro(p) == get_neighborhood(p)

\* valid_moves of LimpiadorAgent.mover for the cleaner at p.
valid_moves(p) == { q \in get_neighborhood(p) : ~HayLimpiador(q) }

\* A variant of limpiar for C11: the cell is left dirty.
limpiar_no_limpia == TRUE

\* CeldaAgent.limpiar: the new value of sucia.
limpiar == FALSE

(* ----------------------------- the metrics ----------------------------- *)

\* celdas_limpias of contar_celdas_limpias: the coordinates of
\* dirty_positions whose cell is clean.
celdas_limpias == Cardinality({ p \in dirty_positions : ~sucia[p] })

\* contar_celdas_limpias: (celdas_limpias / celdas_sucias) * 100, kept as the
\* exact fraction num/den.  It raises ZeroDivisionError when celdas_sucias
\* is 0: the callers check that first.
contar_celdas_limpias == [num |-> celdas_limpias * 100, den |-> celdas_sucias]

\* A variant of AlMenos100 for C12: porcentaje > 100.
MasDe100(p) == p.num > 100 * p.den

\* porcentaje >= 100, for a fraction with a positive denominator.
AlMenos100(p) == p.num >= 100 * p.den

RECURSIVE SumaMovimientos(_)
SumaMovimientos(S) ==
    IF S = {} THEN 0
    ELSE LET a == CHOOSE x \in S : TRUE
         IN  movimientos[a] + SumaMovimientos(S \ {a})

\* A variant of contar_movimientos for C10: the first cleaner is left out.
contar_movimientos_sin_primero == SumaMovimientos(Agentes \ {0})

\* contar_movimientos: the sum over the schedule's cleaners.
contar_movimientos == SumaMovimientos(Agentes)

(* ---------------------------- construction ---------------------------- *)

NoCells == [p \in {} |-> FALSE]
NoAgents == [a \in {} |-> 0]
NoRows == [n |-> 0, limpias |-> [num |-> 0, den |-> 1], movs |-> 0]

InitWith(args) ==
    /\ \E a \in args :
           /\ M = a[1]
           /\ N = a[2]
           /\ num_agentes = a[3]
           /\ celdas_sucias = a[4]
    /\ pc = "new"
    /\ raised = "none"
    /\ running = FALSE
    /\ dirty_positions = {}
    /\ sucia = NoCells
    /\ pos = NoAgents
    /\ movimientos = NoAgents
    /\ steps = 0
    /\ turn = 0
    /\ collected = NoRows
    /\ preSucia = NoCells
    /\ prePos = NoAgents

Init == InitWith(Arguments)

\* total_celdas, and the population random.sample draws from.
total_celdas == M * N
Poblacion == 0..(total_celdas - 1)

\* random.sample(range(total_celdas), celdas_sucias) raises ValueError.
SampleFails == celdas_sucias < 0 \/ celdas_sucias > Cardinality(Poblacion)

\* grid.place_agent(limpiador, (1, 1)) raises IndexError.
PlaceFails == num_agentes >= 1 /\ PosInicial \notin Celdas

Fail(e) ==
    /\ pc' = "failed"
    /\ raised' = e
    /\ UNCHANGED <<params, running, dirty_positions, sucia, pos, movimientos,
                   steps, turn, collected, preSucia, prePos>>

\* __init__ fails drawing the dirty cells.
ConstructSampleError ==
    /\ pc = "new"
    /\ SampleFails
    /\ Fail("ValueError")

\* __init__ fails placing the first cleaner.
ConstructPlaceError ==
    /\ pc = "new"
    /\ ~SampleFails
    /\ PlaceFails
    /\ Fail("IndexError")

\* __init__ returns a model.
ConstructOk ==
    /\ pc = "new"
    /\ ~SampleFails
    /\ ~PlaceFails
    /\ \E posiciones_sucias \in
            { S \in SUBSET Poblacion : Cardinality(S) = celdas_sucias } :
        /\ sucia' = [p \in Celdas |-> (p[1] * N + p[2]) \in posiciones_sucias]
        /\ dirty_positions' =
               { p \in Celdas : (p[1] * N + p[2]) \in posiciones_sucias }
    /\ pos' = [a \in Agentes |-> PosInicial]
    /\ movimientos' = [a \in Agentes |-> 0]
    /\ running' = TRUE
    /\ pc' = "idle"
    /\ preSucia' = sucia'
    /\ prePos' = pos'
    /\ UNCHANGED <<params, raised, steps, turn, collected>>

(* ------------------------ HabitacionModel.step ------------------------ *)

\* datacollector.collect(self): one more row, of the two reporters.
Collect ==
    collected' = [n |-> collected.n + 1,
                  limpias |-> contar_celdas_limpias,
                  movs |-> contar_movimientos]

\* step() with celdas_sucias = 0: the first reporter divides by zero.
StepRaise ==
    /\ pc = "idle"
    /\ celdas_sucias = 0
    /\ raised' = "ZeroDivisionError"
    /\ UNCHANGED <<params, pc, running, dirty_positions, sucia, pos,
                   movimientos, steps, turn, collected, preSucia, prePos>>

\* A variant of StepTerminal for C3: the else is lost, so that schedule.step()
\* runs although the simulation was stopped.
StepTerminalThenSchedule ==
    /\ pc = "idle"
    /\ celdas_sucias # 0
    /\ collected.n < CallLimit
    /\ AlMenos100(contar_celdas_limpias)
    /\ Collect
    /\ running' = FALSE
    /\ pc' = "round"
    /\ turn' = 0
    /\ preSucia' = sucia
    /\ prePos' = pos
    /\ UNCHANGED <<params, raised, dirty_positions, sucia, pos, movimientos,
                   steps>>

\* step() when porcentaje_limpias >= 100: the simulation is stopped.
StepTerminal ==
    /\ pc = "idle"
    /\ celdas_sucias # 0
    /\ collected.n < CallLimit
    /\ AlMenos100(contar_celdas_limpias)
    /\ Collect
    /\ running' = FALSE
    /\ UNCHANGED <<params, pc, raised, dirty_positions, sucia, pos,
                   movimientos, steps, turn, preSucia, prePos>>

\* step() otherwise: schedule.step() begins.
StepSchedule ==
    /\ pc = "idle"
    /\ celdas_sucias # 0
    /\ collected.n < CallLimit
    /\ ~AlMenos100(contar_celdas_limpias)
    /\ Collect
    /\ pc' = "round"
    /\ turn' = 0
    /\ preSucia' = sucia
    /\ prePos' = pos
    /\ UNCHANGED <<params, raised, running, dirty_positions, sucia, pos,
                   movimientos, steps>>

(* ------------------- LimpiadorAgent.step and mover -------------------- *)

NextTurn ==
    /\ turn' = turn + 1
    /\ UNCHANGED <<params, pc, raised, running, dirty_positions, steps,
                   collected, preSucia, prePos>>

\* A variant of AgentClean for C13: the else is lost, so that the cleaner
\* cleans and then moves as well.
AgentCleanThenMove ==
    /\ pc = "round"
    /\ turn \in Agentes
    /\ sucia[pos[turn]]
    /\ sucia' = [sucia EXCEPT ![pos[turn]] = limpiar]
    /\ IF valid_moves(pos[turn]) = {}
       THEN UNCHANGED <<pos, movimientos>>
       ELSE /\ \E nueva_posicion \in valid_moves(pos[turn]) :
                   pos' = [pos EXCEPT ![turn] = nueva_posicion]
            /\ movimientos' = [movimientos EXCEPT ![turn] = @ + 1]
    /\ NextTurn

\* The cleaner is on a dirty cell: it cleans it.
AgentClean ==
    /\ pc = "round"
    /\ turn \in Agentes
    /\ sucia[pos[turn]]
    /\ sucia' = [sucia EXCEPT ![pos[turn]] = limpiar]
    /\ UNCHANGED <<pos, movimientos>>
    /\ NextTurn

\* A variant of AgentMove for C4: the cleaner marks the cell it leaves dirty.
AgentMoveDirties ==
    /\ pc = "round"
    /\ turn \in Agentes
    /\ ~sucia[pos[turn]]
    /\ \E nueva_posicion \in valid_moves(pos[turn]) :
           pos' = [pos EXCEPT ![turn] = nueva_posicion]
    /\ movimientos' = [movimientos EXCEPT ![turn] = @ + 1]
    /\ sucia' = [sucia EXCEPT ![pos[turn]] = TRUE]
    /\ NextTurn

\* The cleaner is on a clean cell: it moves to a neighbour without cleaner.
AgentMove ==
    /\ pc = "round"
    /\ turn \in Agentes
    /\ ~sucia[pos[turn]]
    /\ \E nueva_posicion \in valid_moves(pos[turn]) :
           pos' = [pos EXCEPT ![turn] = nueva_posicion]
    /\ movimientos' = [movimientos EXCEPT ![turn] = @ + 1]
    /\ UNCHANGED sucia
    /\ NextTurn

\* The cleaner is on a clean cell and valid_moves is empty: nothing happens.
AgentBlocked ==
    /\ pc = "round"
    /\ turn \in Agentes
    /\ ~sucia[pos[turn]]
    /\ valid_moves(pos[turn]) = {}
    /\ UNCHANGED <<sucia, pos, movimientos>>
    /\ NextTurn

\* A variant of ScheduleEnd for C16: the round is not counted.
ScheduleEndNotCounted ==
    /\ pc = "round"
    /\ turn \notin Agentes
    /\ pc' = "idle"
    /\ UNCHANGED <<params, raised, running, dirty_positions, sucia, pos,
                   movimientos, steps, turn, collected, preSucia, prePos>>

\* Every cleaner has stepped: advance() of each does nothing, steps += 1.
ScheduleEnd ==
    /\ pc = "round"
    /\ turn \notin Agentes
    /\ steps' = steps + 1
    /\ pc' = "idle"
    /\ UNCHANGED <<params, raised, running, dirty_positions, sucia, pos,
                   movimientos, turn, collected, preSucia, prePos>>

Next ==
    \/ ConstructSampleError
    \/ ConstructPlaceError
    \/ ConstructOk
    \/ StepRaise
    \/ StepTerminal
    \/ StepSchedule
    \/ AgentClean
    \/ AgentMove
    \/ AgentBlocked
    \/ ScheduleEnd

Spec == Init /\ [][Next]_vars


(* ------------------- the same program, run for ever ------------------- *)
(* For the claims about what eventually happens, step() is called without   *)
(* end.  The counters (rows collected, steps, movimientos), which nothing   *)
(* in the program reads back, stop counting at LiveCap so that the states   *)
(* are finitely many.  The arguments are those of the claim: a grid of at   *)
(* least 2 x 2, at least one cleaner, at least one dirty cell.              *)
MaxLiveCells == 6
MaxLiveAgents == 4
MaxLiveLoad == 16
MaxLiveDirty == 2
LiveCap == 1

MaxLiveDim == MaxLiveCells \div 2

LiveArguments ==
    { a \in (2..MaxLiveDim) \X (2..MaxLiveDim) \X (1..MaxLiveAgents)
              \X (1..MaxLiveDirty) :
        /\ a[1] * a[2] <= MaxLiveCells
        /\ a[4] <= a[1] * a[2]
        /\ a[3] * a[1] * a[2] <= MaxLiveLoad }

LiveAgents == 0..(MaxLiveAgents - 1)

\* The cells of the grids of LiveArguments.
LiveCells ==
    { p \in (0..(MaxLiveDim - 1)) \X (0..(MaxLiveDim - 1)) :
        Max(p[1] + 1, 2) * Max(p[2] + 1, 2) <= MaxLiveCells }

Counted(x) == IF x < LiveCap THEN x + 1 ELSE x

LiveInit == InitWith(LiveArguments)

\* datacollector.collect(self).
LiveCollect ==
    collected' = [n |-> Counted(collected.n),
                  limpias |-> contar_celdas_limpias,
                  movs |-> contar_movimientos]

\* A step() that reports 100 per cent and leaves running as it was.
LiveStepTerminalKeepsRunning ==
    /\ pc = "idle"
    /\ celdas_sucias # 0
    /\ AlMenos100(contar_celdas_limpias)
    /\ LiveCollect
    /\ UNCHANGED <<params, pc, raised, running, dirty_positions, sucia, pos,
                   movimientos, steps, turn, preSucia, prePos>>

\* step() when porcentaje_limpias >= 100.
LiveStepTerminal ==
    /\ pc = "idle"
    /\ celdas_sucias # 0
    /\ AlMenos100(contar_celdas_limpias)
    /\ LiveCollect
    /\ running' = FALSE
    /\ UNCHANGED <<params, pc, raised, dirty_positions, sucia, pos,
                   movimientos, steps, turn, preSucia, prePos>>

\* step() otherwise: schedule.step() begins.
LiveStepSchedule ==
    /\ pc = "idle"
    /\ celdas_sucias # 0
    /\ ~AlMenos100(contar_celdas_limpias)
    /\ LiveCollect
    /\ pc' = "round"
    /\ turn' = 0
    /\ preSucia' = sucia
    /\ prePos' = pos
    /\ UNCHANGED <<params, raised, running, dirty_positions, sucia, pos,
                   movimientos, steps>>

\* mover of cleaner a, with random.choice(valid_moves) returning q.
LiveAgentMoveTo(a, q) ==
    /\ pc = "round"
    /\ turn = a
    /\ a \in Agentes
    /\ ~sucia[pos[a]]
    /\ q \in valid_moves(pos[a])
    /\ pos' = [pos EXCEPT ![a] = q]
    /\ movimientos' = [movimientos EXCEPT ![a] = Counted(@)]
    /\ UNCHANGED sucia
    /\ NextTurn

LiveAgentMove == \E a \in LiveAgents, q \in LiveCells : LiveAgentMoveTo(a, q)

\* The end of schedule.step().
LiveScheduleEnd ==
    /\ pc = "round"
    /\ turn \notin Agentes
    /\ steps' = Counted(steps)
    /\ pc' = "idle"
    /\ UNCHANGED <<params, raised, running, dirty_positions, sucia, pos,
                   movimientos, turn, collected, preSucia, prePos>>

NextLive ==
    \/ ConstructOk
    \/ LiveStepTerminal
    \/ LiveStepSchedule
    \/ AgentClean
    \/ LiveAgentMove
    \/ AgentBlocked
    \/ LiveScheduleEnd

\* step() is called again and again and every call runs to its end.
Progress == WF_vars(NextLive)

\* random.choice is fair: a cell that can be chosen again and again is
\* eventually chosen.
FairChoice ==
    \A q \in LiveCells : SF_vars(\E a \in LiveAgents : LiveAgentMoveTo(a, q))

\* The program driven for ever, with an arbitrary random source.
SpecDriven == LiveInit /\ [][NextLive]_vars /\ Progress

\* The program driven for ever, with a fair random source.
SpecFair == LiveInit /\ [][NextLive]_vars /\ Progress /\ FairChoice

(* ------------------------- notions of the claims ------------------------ *)

\* __init__ returned a model.
Built == pc \in {"idle", "round"}

\* The arguments the specification calls valid.
ValidArguments ==
    /\ M >= 1
    /\ N >= 1
    /\ num_agentes >= 0
    /\ 0 <= celdas_sucias
    /\ celdas_sucias <= M * N

\* The coordinates whose cell is dirty.
Sucias == { p \in Celdas : sucia[p] }

\* clean_fraction() >= 100 as the specification defines it: vacuously so
\* when no cell was to be dirty.
SpecFull ==
    \/ celdas_sucias = 0
    \/ celdas_sucias > 0 /\ AlMenos100(contar_celdas_limpias)

\* This step is the model's step() being called, from its first statement.
AdvanceCall ==
    /\ pc = "idle"
    /\ \/ collected'.n = collected.n + 1
       \/ raised' # raised

\* step() has been called at least once.
AdvanceCalled == collected.n >= 1 \/ raised = "ZeroDivisionError"

\* This step is cleaner a's activation by the schedule.
Activation(a) == pc = "round" /\ turn = a /\ a \in Agentes /\ turn' = a + 1

\* valid_moves computed on the grid as it was when the round began.
SnapshotMoves(p) ==
    { q \in get_neighborhood(p) : \A b \in Agentes : prePos[b] # q }

(* C1: within one round every cleaner decides (clean or move, and where to) *)
(* on the grid as it was before any cleaner acted in that round.            *)
C1_SnapshotDecision ==
    [][\A a \in Agentes : (ValidArguments /\ Activation(a)) =>
          IF preSucia[prePos[a]]
          THEN /\ ~sucia'[prePos[a]]
               /\ pos'[a] = prePos[a]
               /\ movimientos'[a] = movimientos[a]
          ELSE IF SnapshotMoves(prePos[a]) = {}
               THEN pos'[a] = prePos[a]
               ELSE pos'[a] \in SnapshotMoves(prePos[a])]_vars

(* C2: running is true until, and becomes false exactly at, the first call  *)
(* of step() that starts with clean_fraction() >= 100; it is never false    *)
(* while a coordinate of dirty_positions is dirty.                          *)
C2_TerminationCorrectness ==
    /\ [][(Built /\ ValidArguments /\ AdvanceCall)
             => (running' = (running /\ ~SpecFull))]_vars
    /\ []((Built /\ ~running) => (dirty_positions \cap Sucias = {}))

(* C2, for the models built with at least one dirty cell: the same          *)
(* statement, which the code satisfies there.                               *)
C2_WithDirt ==
    /\ [][(Built /\ celdas_sucias > 0 /\ AdvanceCall)
             => (running' = (running /\ ~SpecFull))]_vars
    /\ []((Built /\ ~running) => (dirty_positions \cap Sucias = {}))

(* C3: once running is false, every further step leaves running false and   *)
(* the dirty flags, the cleaners' positions and counters and the step count  *)
(* unchanged, and activates no cleaner.                                      *)
C3_TerminatedAbsorbing ==
    [][(Built /\ ~running) =>
          /\ ~running'
          /\ sucia' = sucia
          /\ pos' = pos
          /\ movimientos' = movimientos
          /\ steps' = steps
          /\ pc' = "idle"]_vars

\* step() was called again after the call that stopped the simulation.
C3_Witness == Built /\ ~running /\ pc = "idle" /\ collected.n >= steps + 2

(* C4: a dirty flag only changes from dirty to clean, so the clean fraction  *)
(* never decreases, neither as computed nor as recorded by successive calls. *)
C4_Monotonic ==
    [][Built =>
          /\ \A p \in Celdas : sucia'[p] => sucia[p]
          /\ contar_celdas_limpias'.num * contar_celdas_limpias.den
                 >= contar_celdas_limpias.num * contar_celdas_limpias'.den
          /\ (collected.n >= 1) =>
                 collected'.limpias.num * collected.limpias.den
                     >= collected.limpias.num * collected'.limpias.den]_vars

\* Two calls have recorded the fraction, the last one with some cells
\* cleaned and others still dirty.
C4_Witness ==
    /\ Built
    /\ collected.n >= 2
    /\ collected.limpias.num > 0
    /\ dirty_positions \cap Sucias # {}

(* C5: a cleaner that moves never arrives at a coordinate that held another  *)
(* cleaner when the round began.                                             *)
C5_NoOverlapOnMove ==
    [][\A a \in Agentes :
          (ValidArguments /\ Activation(a) /\ pos'[a] # pos[a]) =>
          \A b \in Agentes \ {a} : prePos[b] # pos'[a]]_vars

(* C6: with no dirty cell asked for, the first call of step() does not fail, *)
(* stops the simulation and moves no cleaner.                                *)
C6_ZeroDirt ==
    (Built /\ ValidArguments /\ celdas_sucias = 0 /\ AdvanceCalled) =>
        /\ raised = "none"
        /\ ~running
        /\ contar_movimientos = 0
        /\ steps = 0

(* C7: for valid arguments the constructor succeeds, and right after it the  *)
(* dirty coordinates are exactly celdas_sucias many, are dirty_positions,    *)
(* and the clean fraction is 0 when celdas_sucias > 0.                       *)
JustBuilt == pc = "idle" /\ collected.n = 0 /\ raised = "none"

InitialStateRight ==
    /\ Cardinality(Sucias) = celdas_sucias
    /\ Sucias = dirty_positions
    /\ celdas_sucias > 0 => contar_celdas_limpias.num = 0

C7_InitialState ==
    (ValidArguments /\ pc # "new") =>
        /\ pc # "failed"
        /\ JustBuilt => InitialStateRight

\* C7, for the models the constructor does return.
C7_WhenBuilt == (ValidArguments /\ JustBuilt) => InitialStateRight

(* C8: for every valid construction, grids of one row or one column too,     *)
(* every cleaner is at a coordinate of the grid in every reachable state.    *)
C8_InBounds ==
    (ValidArguments /\ pc # "new") =>
        /\ pc # "failed"
        /\ \A a \in Agentes : pos[a] \in Celdas

\* C8, for the models the constructor does return.
C8_WhenBuilt == Built => \A a \in Agentes : pos[a] \in Celdas

(* C9: the constructor fails whenever celdas_sucias > M * N or M <= 0 or     *)
(* N <= 0, whatever the number of cleaners.                                  *)
C9_RejectsInvalid ==
    (pc # "new" /\ (celdas_sucias > M * N \/ M <= 0 \/ N <= 0)) =>
        pc = "failed"

(* C10: every movement counter is >= 0 and never decreases, and the total    *)
(* of moves, as computed and as recorded by step(), is the sum of the        *)
(* cleaners' counters.                                                       *)
TotalByCounting ==
    Cardinality({ ak \in Agentes \X (1..(steps + 1)) :
                    ak[2] <= movimientos[ak[1]] })

C10_MovementCounters ==
    /\ [](Built => /\ \A a \in Agentes : movimientos[a] >= 0
                   /\ contar_movimientos = TotalByCounting)
    /\ [][Built => /\ \A a \in Agentes : movimientos'[a] >= movimientos[a]
                   /\ collected'.n # collected.n =>
                          collected'.movs = TotalByCounting]_vars

\* A call has recorded a total made of the moves of two cleaners.
C10_Witness ==
    /\ Built
    /\ collected.movs >= 2
    /\ \E a, b \in Agentes : a # b /\ movimientos[a] >= 1 /\ movimientos[b] >= 1


(* C11: with M = 2, N = 2, one cleaner and the four cells dirty, the         *)
(* fraction a call records is greater than the one the call before it        *)
(* recorded, until 100 is recorded; the step count is the number of rounds   *)
(* run; the cleaner stays on the grid.                                       *)
C11_Scenario ==
    Built /\ M = 2 /\ N = 2 /\ num_agentes = 1 /\ celdas_sucias = 4

\* This step is the end of a round of the schedule.
RoundEnds == pc = "round" /\ pc' = "idle"

C11_Frame ==
    /\ [](C11_Scenario => pos[0] \in Celdas)
    /\ [][C11_Scenario =>
             steps' = steps + (IF RoundEnds THEN 1 ELSE 0)]_vars

C11_StrictIncrease ==
    /\ [][(C11_Scenario /\ AdvanceCall /\ collected.n >= 1
              /\ ~AlMenos100(collected.limpias))
             => collected'.limpias.num > collected.limpias.num]_vars
    /\ C11_Frame

\* C11 as amended: the recorded fraction never decreases; it is 25 points
\* higher after a round the cleaner began on a dirty cell, and the same after
\* a round in which it moved.
C11_NonDecreasing ==
    /\ [][(C11_Scenario /\ AdvanceCall /\ collected.n >= 1 /\ running)
             => collected'.limpias.num =
                    collected.limpias.num
                      + (IF preSucia[prePos[0]]
                         THEN 25 * collected.limpias.den ELSE 0)]_vars
    /\ [][(C11_Scenario /\ AdvanceCall /\ collected.n >= 1)
             => collected'.limpias.num >= collected.limpias.num]_vars
    /\ C11_Frame

\* The four cells were cleaned and the simulation stopped.
C11_Witness == C11_Scenario /\ ~running /\ steps >= 7


(* C12: with M = 3, N = 3, one cleaner and the only dirty cell under it, the *)
(* cleaner cleans in the first round without moving, and the call of step()  *)
(* made at step 1 (the second call, "Paso 1") records a fraction of 100 and  *)
(* no move, and stops the simulation.                                        *)
C12_Scenario ==
    /\ Built
    /\ M = 3 /\ N = 3 /\ num_agentes = 1 /\ celdas_sucias = 1
    /\ dirty_positions = {PosInicial}

C12_DirtUnderAgent ==
    /\ [][(C12_Scenario /\ AdvanceCall /\ steps = 1) =>
             /\ AlMenos100(collected'.limpias)
             /\ collected'.movs = 0
             /\ ~running'
             /\ pc' = "idle"]_vars
    /\ [](C12_Scenario =>
             /\ steps <= 1
             /\ pos[0] = PosInicial
             /\ movimientos[0] = 0
             /\ (steps = 1 => Sucias = {})
             /\ (collected.n >= 2 => steps = 1 /\ ~running))

\* The call at step 1 has been made.
C12_Witness == C12_Scenario /\ steps = 1 /\ collected.n = 2 /\ ~running


(* C13: a cleaner activated on a dirty cell leaves that cell clean and       *)
(* changes nothing else: not its position or counter, no other cell's flag,  *)
(* no other cleaner's position or counter.                                   *)
C13_CleanAction ==
    [][\A a \in Agentes : (Activation(a) /\ sucia[pos[a]]) =>
          /\ ~sucia'[pos[a]]
          /\ \A p \in Celdas \ {pos[a]} : sucia'[p] = sucia[p]
          /\ pos' = pos
          /\ movimientos' = movimientos
          /\ dirty_positions' = dirty_positions]_vars

\* The first cleaner of the round has just cleaned its cell, with another
\* cleaner in the room and another cell still dirty.
C13_Witness ==
    /\ pc = "round"
    /\ turn = 1
    /\ num_agentes >= 2
    /\ preSucia[prePos[0]]
    /\ ~sucia[pos[0]]
    /\ Sucias # {}


(* C14: a cleaner activated on a clean cell moves to a coordinate of the     *)
(* Moore neighbourhood of its position (8-connected, clipped at the edges,   *)
(* centre excluded) that holds no cleaner, and its counter grows by 1; when  *)
(* every neighbour holds a cleaner it stays and its counter is unchanged.    *)
(* No dirty flag changes, nor any other cleaner.  Hence a counter changes    *)
(* exactly when the position does.                                           *)
Abs(x) == IF x >= 0 THEN x ELSE 0 - x

Moore(p) ==
    { q \in Celdas : Max(Abs(q[1] - p[1]), Abs(q[2] - p[2])) = 1 }

FreeNeighbours(p) == { q \in Moore(p) : \A b \in Agentes : pos[b] # q }

C14_MoveAction ==
    /\ [][\A a \in Agentes : (Activation(a) /\ ~sucia[pos[a]]) =>
             /\ sucia' = sucia
             /\ \A b \in Agentes \ {a} :
                    pos'[b] = pos[b] /\ movimientos'[b] = movimientos[b]
             /\ IF FreeNeighbours(pos[a]) # {}
                THEN /\ pos'[a] \in FreeNeighbours(pos[a])
                     /\ movimientos'[a] = movimientos[a] + 1
                ELSE /\ pos'[a] = pos[a]
                     /\ movimientos'[a] = movimientos[a]]_vars
    /\ [][Built => \A a \in Agentes :
             (movimientos'[a] # movimientos[a]) <=> (pos'[a] # pos[a])]_vars

\* In the round under way a cleaner has moved, and another, activated on a
\* clean cell, has stayed where it was.
C14_Witness ==
    /\ pc = "round"
    /\ \E a, b \in 0..(turn - 1) :
           /\ pos[a] # prePos[a]
           /\ pos[b] = prePos[b]
           /\ ~preSucia[prePos[b]]


(* C15: two cleaners stand on the same coordinate only if it is the starting *)
(* coordinate and neither has ever moved; so a cleaner that has just moved   *)
(* (its counter is then >= 1) is alone on its destination.                   *)
C15_CoOccupancyOnlyAtStart ==
    Built => \A a, b \in Agentes :
        (a # b /\ pos[a] = pos[b]) =>
            /\ pos[a] = PosInicial
            /\ movimientos[a] = 0
            /\ movimientos[b] = 0

\* Two cleaners that have both moved stand next to each other, while two
\* others still share the starting coordinate.
C15_Witness ==
    /\ Built
    /\ \E a, b \in Agentes :
           /\ a # b
           /\ movimientos[a] >= 1 /\ movimientos[b] >= 1
           /\ pos[b] \in Moore(pos[a])
    /\ \E c, d \in Agentes : c # d /\ pos[c] = pos[d]


(* C16: the step count starts at 0, grows by exactly 1 with every call of    *)
(* step() that runs a round, and not at all with a call that stops the       *)
(* simulation; the row a call records holds the metrics as they were before  *)
(* that call's round.                                                        *)
\* The cleaners that have moved in the round under way.
MovedInRound == { a \in Agentes : pos[a] # prePos[a] }

C16_StepCounting ==
    /\ [](JustBuilt => steps = 0)
    /\ [][Built => steps' = steps + (IF RoundEnds THEN 1 ELSE 0)]_vars
    /\ []((Built /\ running /\ pc = "idle") => steps = collected.n)
    /\ []((Built /\ pc = "round") =>
             /\ steps = collected.n - 1
             /\ collected.limpias.num =
                    100 * Cardinality({ p \in dirty_positions : ~preSucia[p] })
             /\ collected.movs = TotalByCounting - Cardinality(MovedInRound))
    /\ [][(Built /\ AdvanceCall /\ collected'.n # collected.n) =>
             /\ collected'.limpias.num =
                    100 * Cardinality(dirty_positions \ Sucias)
             /\ collected'.movs = TotalByCounting
             /\ IF AlMenos100(collected'.limpias)
                THEN pc' = "idle" /\ steps' = steps /\ ~running'
                ELSE pc' = "round" /\ running' = running]_vars

\* Rounds were run and counted, with moves, and then a call stopped the
\* simulation.
C16_Witness ==
    /\ Built
    /\ ~running
    /\ steps >= 2
    /\ collected.n = steps + 1
    /\ collected.movs >= 1


(* C17: dirty_positions never changes after construction, every dirty        *)
(* coordinate is one of dirty_positions, and so clean_fraction() always      *)
(* lies between 0 and 100.                                                   *)
\* contar_celdas_limpias returns a value, and it is between 0 and 100.
FractionInRange ==
    /\ contar_celdas_limpias.den # 0
    /\ 0 <= contar_celdas_limpias.num
    /\ contar_celdas_limpias.num <= 100 * contar_celdas_limpias.den

C17_DirtyPositionsFixed ==
    /\ [][Built => dirty_positions' = dirty_positions]_vars
    /\ []((Built /\ ValidArguments) =>
             /\ Sucias \subseteq dirty_positions
             /\ FractionInRange)

\* C17, for the models built with at least one dirty cell.
C17_WithDirt ==
    /\ [][Built => dirty_positions' = dirty_positions]_vars
    /\ [](Built => Sucias \subseteq dirty_positions)
    /\ []((Built /\ celdas_sucias > 0) => FractionInRange)


(* C18: on a grid of at least 2 x 2 with at least one cleaner, a round (run  *)
(* only while some cell of dirty_positions is dirty) never leaves the room   *)
(* as it found it: some cleaner has cleaned its cell or moved.               *)
C18_NoIdleRound ==
    (/\ pc = "round"
     /\ turn \notin Agentes
     /\ M >= 2 /\ N >= 2 /\ num_agentes >= 1)
        => \E a \in Agentes :
               \/ pos[a] # prePos[a]
               \/ preSucia[prePos[a]] /\ ~sucia[prePos[a]]

\* A round has ended in which a cleaner was blocked, with dirt remaining.
C18_Witness ==
    /\ pc = "round"
    /\ turn \notin Agentes
    /\ M >= 2 /\ N >= 2
    /\ \E b \in Agentes : pos[b] = prePos[b] /\ ~preSucia[prePos[b]]
    /\ dirty_positions \cap Sucias # {}


(* C19: on a grid of at least 2 x 2 with at least one cleaner and one dirty  *)
(* cell, if step() is called for ever and the random choice of moves is      *)
(* fair, every cell of dirty_positions is eventually clean and running       *)
(* eventually False.  (Under SpecDriven, without the fair choice, the same   *)
(* formula is violated: a cleaner can walk for ever away from the dirt.)     *)
C19_EventualTermination ==
    <>(Built /\ ~running /\ dirty_positions \cap Sucias = {})

\* The simulation stopped after cleaning cells the cleaners had to walk to.
C19_Witness ==
    /\ Built
    /\ ~running
    /\ celdas_sucias >= 2
    /\ dirty_positions \cap Sucias = {}

=============================================================================
